---- MODULE Spec2Model ----
(***************************************************************************)
(* Model of the ProfileManagement component                                *)
(* (src/src/components/ProfileManagement.tsx): the React state it holds,   *)
(* its event handlers and the rendering conditions that decide which       *)
(* handler the user can reach.  One action per UI event; every handler     *)
(* runs to completion before the next event (React event dispatch).        *)
(*                                                                         *)
(* Text that the code inspects (fullName, emailAddress, phoneNumber,       *)
(* orcidId, the passwords) is a sequence of one-character strings, so the  *)
(* regular expressions, trim() and length are computed character by        *)
(* character.  Text that the code only stores is an opaque string.         *)
(***************************************************************************)
EXTENDS Integers, Sequences, FiniteSets, TLC

VARIABLES
    activeSection,   \* useState<ActiveSection>            (line 115)
    hasChanges,      \* useState(false): the dirty flag    (line 116)
    profileImage,    \* useState(url)                      (line 117)
    personalInfo,    \* useState<PersonalInfo>             (line 119)
    academicInfo,    \* useState<AcademicInfo>             (line 132)
    researchLinks,   \* useState<ResearchLinks>            (line 139)
    passwordData,    \* useState<PasswordData>             (line 147)
    notifications,   \* useState<NotificationSettings>     (line 153)
    privacySetting,  \* useState<PrivacySetting>           (line 160)
    toasts,          \* notifications emitted by the last event (sonner toast.*)
    lastEvent,       \* the UI event handled last: which handler, from which control
    lastSaved,       \* history: the profile as of the last accepted handleSave
    eventCount       \* number of UI events handled so far

vars == <<activeSection, hasChanges, profileImage, personalInfo, academicInfo,
          researchLinks, passwordData, notifications, privacySetting,
          toasts, lastEvent, lastSaved, eventCount>>

\* The React state of the component, without the observation variables.
session == <<activeSection, hasChanges, profileImage, personalInfo, academicInfo,
             researchLinks, passwordData, notifications, privacySetting>>

(***************************************************************************)
(* Bounds of the model.                                                    *)
(***************************************************************************)
\* UI events explored from the initial render.
MaxEvents == 5

(***************************************************************************)
(* Characters and character classes of JavaScript regular expressions.     *)
(***************************************************************************)
Digits == {"0", "1", "2", "3", "4", "5", "6", "7", "8", "9"}

\* \s, and the characters String.prototype.trim() strips.
Whitespace == {" ", "\t", "\n"}

Range(s) == {s[i] : i \in 1..Len(s)}

\* JavaScript truthiness of a string: non-empty.
Truthy(s) == Len(s) > 0

\* String.prototype.trim()
trim(s) ==
    LET keep == {i \in 1..Len(s) : s[i] \notin Whitespace}
    IN  IF keep = {} THEN <<>>
        ELSE SubSeq(s, CHOOSE i \in keep : \A j \in keep : i <= j,
                       CHOOSE i \in keep : \A j \in keep : j <= i)

(***************************************************************************)
(* Fixed option lists (module-level constants of the source).              *)
(***************************************************************************)
academicDesignations == <<"Prof.", "Associate Prof.", "Assistant Prof.", "Lecturer">>

departments ==
    <<"Computer Science", "Electrical Engineering", "Mechanical Engineering",
      "Mathematics", "Physics", "Chemistry", "Biology", "Business Administration",
      "Economics", "English Literature", "Psychology", "Sociology">>

payScales == <<"TTS", "BPS", "SPS", "Contract">>

qualifications == <<"PhD", "MS", "MPhil", "Masters", "Bachelor">>

specializationOptions ==
    <<"Machine Learning", "Data Science", "Software Engineering", "Computer Networks",
      "Database Systems", "Human-Computer Interaction", "Cybersecurity",
      "Artificial Intelligence", "Web Development", "Mobile Development">>

ActiveSections == {"personal", "academic", "picture", "research", "settings"}

PrivacySettings == {"public", "university", "private"}

(***************************************************************************)
(* Initial values (the useState arguments).                                *)
(***************************************************************************)
\* "Dr. John Smith"
DefaultFullName == <<"D","r","."," ","J","o","h","n"," ","S","m","i","t","h">>

\* "+1-555-123-4567"
DefaultPhoneNumber == <<"+","1","-","5","5","5","-","1","2","3","-","4","5","6","7">>

\* "john.smith@university.edu"
DefaultEmailAddress ==
    <<"j","o","h","n",".","s","m","i","t","h","@",
      "u","n","i","v","e","r","s","i","t","y",".","e","d","u">>

\* "0000-0000-0000-1234"
DefaultOrcidId ==
    <<"0","0","0","0","-","0","0","0","0","-","0","0","0","0","-","1","2","3","4">>

\* A Date is <<year, monthIndex, day>>; undefined is the empty tuple.
undefined == <<>>

InitialPersonalInfo ==
    [ fullName             |-> DefaultFullName,
      academicDesignation  |-> "Assistant Prof.",
      department           |-> "Computer Science",
      payScale             |-> "BPS",
      highestQualification |-> "PhD",
      dateOfAppointment    |-> <<2021, 8, 15>>,
      phoneNumber          |-> DefaultPhoneNumber,
      emailAddress         |-> DefaultEmailAddress,
      officeAddress        |-> "Room 204, Engineering Building, North Campus",
      postalAddress        |-> "123 University Avenue, Academic City, State 12345, United States" ]

InitialAcademicInfo ==
    [ researchInterests      |-> "My research focuses on artificial intelligence and machine learning applications in computer vision, with particular emphasis on deep learning architectures for image recognition and natural language processing. I am also interested in developing efficient algorithms for real-time data processing and exploring the applications of AI in sustainable technology solutions.",
      specializationAreas    |-> <<"Machine Learning", "Data Science", "Artificial Intelligence">>,
      performancePeriodStart |-> <<2024, 0, 1>>,
      performancePeriodEnd   |-> <<2024, 11, 31>> ]

InitialResearchLinks ==
    [ googleScholar   |-> "https://scholar.google.com/citations?user=example123",
      orcidId         |-> DefaultOrcidId,
      researchGate    |-> "https://www.researchgate.net/profile/John-Smith-123",
      linkedIn        |-> "https://linkedin.com/in/john-smith-phd",
      personalWebsite |-> "https://johnsmith-research.edu" ]

InitialPasswordData ==
    [ currentPassword |-> <<>>, newPassword |-> <<>>, confirmPassword |-> <<>> ]

InitialNotifications ==
    [ emailNotifications |-> TRUE,
      researchUpdates    |-> TRUE,
      systemAlerts       |-> FALSE,
      departmentNews     |-> TRUE ]

\* The part of the session that Save is about: everything but the password triple.
Profile ==
    [ personalInfo   |-> personalInfo,
      academicInfo   |-> academicInfo,
      researchLinks  |-> researchLinks,
      notifications  |-> notifications,
      privacySetting |-> privacySetting ]

Init ==
    /\ activeSection = "personal"
    /\ hasChanges = FALSE
    /\ profileImage = "https://images.unsplash.com/photo-1507003211169-0a1dd7228f2d?w=400&h=400&fit=crop&crop=face"
    /\ personalInfo = InitialPersonalInfo
    /\ academicInfo = InitialAcademicInfo
    /\ researchLinks = InitialResearchLinks
    /\ passwordData = InitialPasswordData
    /\ notifications = InitialNotifications
    /\ privacySetting = "university"
    /\ toasts = <<>>
    /\ lastEvent = [handler |-> "render", via |-> "mount", field |-> "", value |-> <<>>]
    /\ lastSaved = Profile
    /\ eventCount = 0

(***************************************************************************)
(* Validators (lines 192-202): the regular expressions, matched character  *)
(* by character.                                                           *)
(***************************************************************************)
\* [^\s@]
NotSpaceNorAt(c) == c \notin Whitespace /\ c # "@"

\* [\d\s\-\(\)]
PhoneChar(c) == c \in Digits \/ c \in Whitespace \/ c \in {"-", "(", ")"}

\* A variant whose three runs are \S+ : '@' is allowed inside a run.
validateEmail_nonWhitespace(email) ==
    \E at \in 1..Len(email) : \E dot \in 1..Len(email) :
        /\ email[at] = "@"
        /\ email[dot] = "."
        /\ 1 < at /\ at + 1 < dot /\ dot < Len(email)
        /\ \A k \in 1..Len(email) : email[k] \notin Whitespace

\* /^[^\s@]+@[^\s@]+\.[^\s@]+$/
validateEmail(email) ==
    \E at \in 1..Len(email) : \E dot \in 1..Len(email) :
        /\ email[at] = "@"
        /\ email[dot] = "."
        /\ 1 < at /\ at + 1 < dot /\ dot < Len(email)
        /\ \A k \in 1..(at - 1) : NotSpaceNorAt(email[k])
        /\ \A k \in (at + 1)..(dot - 1) : NotSpaceNorAt(email[k])
        /\ \A k \in (dot + 1)..Len(email) : NotSpaceNorAt(email[k])

\* A variant whose character class has the space character in place of \s.
validatePhone_spaceOnly(phone) ==
    \E plus \in {0, 1} : \E paren \in {0, 1} :
        /\ plus + paren <= Len(phone)
        /\ plus = 1 => phone[1] = "+"
        /\ paren = 1 => phone[plus + 1] = "("
        /\ Len(phone) - (plus + paren) >= 10
        /\ \A k \in (plus + paren + 1)..Len(phone) :
                phone[k] \in Digits \cup {" ", "-", "(", ")"}

\* /^[\+]?[(]?[\d\s\-\(\)]{10,}$/
validatePhone(phone) ==
    \E plus \in {0, 1} : \E paren \in {0, 1} :
        /\ plus + paren <= Len(phone)
        /\ plus = 1 => phone[1] = "+"
        /\ paren = 1 => phone[plus + 1] = "("
        /\ Len(phone) - (plus + paren) >= 10
        /\ \A k \in (plus + paren + 1)..Len(phone) : PhoneChar(phone[k])

\* A variant without the closing $ : anything may follow the 19 characters.
validateOrcid_noEndAnchor(orcid) ==
    /\ Len(orcid) >= 19
    /\ \A k \in {1, 2, 3, 4, 6, 7, 8, 9, 11, 12, 13, 14, 16, 17, 18} : orcid[k] \in Digits
    /\ \A k \in {5, 10, 15} : orcid[k] = "-"
    /\ orcid[19] \in Digits \cup {"X"}

\* /^\d{4}-\d{4}-\d{4}-\d{3}[\dX]$/
validateOrcid(orcid) ==
    /\ Len(orcid) = 19
    /\ \A k \in {1, 2, 3, 4, 6, 7, 8, 9, 11, 12, 13, 14, 16, 17, 18} : orcid[k] \in Digits
    /\ \A k \in {5, 10, 15} : orcid[k] = "-"
    /\ orcid[19] \in Digits \cup {"X"}

(***************************************************************************)
(* Notifications: toast.error / toast.success / toast.info of sonner.      *)
(* toasts holds what the handler of the last event emitted, in order.      *)
(***************************************************************************)
Toast(severity, message) == [severity |-> severity, message |-> message]

(***************************************************************************)
(* Event handlers.  Each one states the whole effect of the handler on the *)
(* component's state and on the notifications it emits.                    *)
(***************************************************************************)
\* A variant that marks the session dirty only when the value differs.
handlePersonalInfoChange_dirtyOnDiff(field, value) ==
    /\ personalInfo' = [personalInfo EXCEPT ![field] = value]
    /\ hasChanges' = (hasChanges \/ personalInfo[field] # value)
    /\ toasts' = <<>>
    /\ UNCHANGED <<activeSection, profileImage, academicInfo, researchLinks,
                   passwordData, notifications, privacySetting, lastSaved>>

\* lines 162-165
handlePersonalInfoChange(field, value) ==
    /\ personalInfo' = [personalInfo EXCEPT ![field] = value]
    /\ hasChanges' = TRUE
    /\ toasts' = <<>>
    /\ UNCHANGED <<activeSection, profileImage, academicInfo, researchLinks,
                   passwordData, notifications, privacySetting, lastSaved>>

\* lines 167-170
handleAcademicInfoChange(field, value) ==
    /\ academicInfo' = [academicInfo EXCEPT ![field] = value]
    /\ hasChanges' = TRUE
    /\ toasts' = <<>>
    /\ UNCHANGED <<activeSection, profileImage, personalInfo, researchLinks,
                   passwordData, notifications, privacySetting, lastSaved>>

\* A variant without the ...prev spread: the other links are lost.
handleResearchLinksChange_noSpread(field, value) ==
    /\ researchLinks' = [f \in DOMAIN researchLinks |->
                            IF f = field THEN value
                            ELSE IF f = "orcidId" THEN <<>> ELSE ""]
    /\ hasChanges' = TRUE
    /\ toasts' = <<>>
    /\ UNCHANGED <<activeSection, profileImage, personalInfo, academicInfo,
                   passwordData, notifications, privacySetting, lastSaved>>

\* lines 172-175
handleResearchLinksChange(field, value) ==
    /\ researchLinks' = [researchLinks EXCEPT ![field] = value]
    /\ hasChanges' = TRUE
    /\ toasts' = <<>>
    /\ UNCHANGED <<activeSection, profileImage, personalInfo, academicInfo,
                   passwordData, notifications, privacySetting, lastSaved>>

\* lines 177-180
handleNotificationChange(field, value) ==
    /\ notifications' = [notifications EXCEPT ![field] = value]
    /\ hasChanges' = TRUE
    /\ toasts' = <<>>
    /\ UNCHANGED <<activeSection, profileImage, personalInfo, academicInfo,
                   researchLinks, passwordData, privacySetting, lastSaved>>

\* lines 854-857: the RadioGroup's onValueChange
handlePrivacyChange(value) ==
    /\ privacySetting' = value
    /\ hasChanges' = TRUE
    /\ toasts' = <<>>
    /\ UNCHANGED <<activeSection, profileImage, personalInfo, academicInfo,
                   researchLinks, passwordData, notifications, lastSaved>>

\* A variant without the includes() test.
addSpecialization_alwaysAppends(area) ==
    handleAcademicInfoChange("specializationAreas",
                             Append(academicInfo.specializationAreas, area))

\* lines 182-186
addSpecialization(area) ==
    IF area \notin Range(academicInfo.specializationAreas)
    THEN handleAcademicInfoChange("specializationAreas",
                                  Append(academicInfo.specializationAreas, area))
    ELSE /\ toasts' = <<>>
         /\ UNCHANGED <<session, lastSaved>>

\* A variant that drops the last entry instead of filtering by value.
removeSpecialization_dropsLast(area) ==
    handleAcademicInfoChange("specializationAreas",
        SubSeq(academicInfo.specializationAreas, 1,
               Len(academicInfo.specializationAreas) - 1))

\* lines 188-190
removeSpecialization(area) ==
    handleAcademicInfoChange("specializationAreas",
                             SelectSeq(academicInfo.specializationAreas,
                                       LAMBDA a : a # area))

\* A variant with setHasChanges(false) ahead of the validation.
handleSave_clearsFirst ==
    IF \/ ~Truthy(trim(personalInfo.fullName))
       \/ ~validateEmail(personalInfo.emailAddress)
       \/ ~validatePhone(personalInfo.phoneNumber)
       \/ (Truthy(researchLinks.orcidId) /\ ~validateOrcid(researchLinks.orcidId))
    THEN /\ toasts' = <<Toast("error",
                IF ~Truthy(trim(personalInfo.fullName)) THEN "Full name is required"
                ELSE IF ~validateEmail(personalInfo.emailAddress)
                     THEN "Please enter a valid email address"
                ELSE IF ~validatePhone(personalInfo.phoneNumber)
                     THEN "Please enter a valid phone number"
                ELSE "Please enter a valid ORCID ID (format: 0000-0000-0000-0000)")>>
         /\ hasChanges' = FALSE
         /\ UNCHANGED <<activeSection, profileImage, personalInfo, academicInfo,
                        researchLinks, passwordData, notifications, privacySetting,
                        lastSaved>>
    ELSE /\ toasts' = <<Toast("success", "Profile updated successfully!")>>
         /\ hasChanges' = FALSE
         /\ lastSaved' = Profile
         /\ UNCHANGED <<activeSection, profileImage, personalInfo, academicInfo,
                        researchLinks, passwordData, notifications, privacySetting>>

\* A variant that checks the phone number before the email address.
handleSave_phoneFirst ==
    IF ~Truthy(trim(personalInfo.fullName))
    THEN /\ toasts' = <<Toast("error", "Full name is required")>>
         /\ UNCHANGED <<session, lastSaved>>
    ELSE IF ~validatePhone(personalInfo.phoneNumber)
    THEN /\ toasts' = <<Toast("error", "Please enter a valid phone number")>>
         /\ UNCHANGED <<session, lastSaved>>
    ELSE IF ~validateEmail(personalInfo.emailAddress)
    THEN /\ toasts' = <<Toast("error", "Please enter a valid email address")>>
         /\ UNCHANGED <<session, lastSaved>>
    ELSE IF Truthy(researchLinks.orcidId) /\ ~validateOrcid(researchLinks.orcidId)
    THEN /\ toasts' = <<Toast("error", "Please enter a valid ORCID ID (format: 0000-0000-0000-0000)")>>
         /\ UNCHANGED <<session, lastSaved>>
    ELSE /\ toasts' = <<Toast("success", "Profile updated successfully!")>>
         /\ hasChanges' = FALSE
         /\ lastSaved' = Profile
         /\ UNCHANGED <<activeSection, profileImage, personalInfo, academicInfo,
                        researchLinks, passwordData, notifications, privacySetting>>

\* A variant that forgets setHasChanges(false) after the success toast.
handleSave_staysDirty ==
    IF ~Truthy(trim(personalInfo.fullName))
    THEN /\ toasts' = <<Toast("error", "Full name is required")>>
         /\ UNCHANGED <<session, lastSaved>>
    ELSE IF ~validateEmail(personalInfo.emailAddress)
    THEN /\ toasts' = <<Toast("error", "Please enter a valid email address")>>
         /\ UNCHANGED <<session, lastSaved>>
    ELSE IF ~validatePhone(personalInfo.phoneNumber)
    THEN /\ toasts' = <<Toast("error", "Please enter a valid phone number")>>
         /\ UNCHANGED <<session, lastSaved>>
    ELSE IF Truthy(researchLinks.orcidId) /\ ~validateOrcid(researchLinks.orcidId)
    THEN /\ toasts' = <<Toast("error", "Please enter a valid ORCID ID (format: 0000-0000-0000-0000)")>>
         /\ UNCHANGED <<session, lastSaved>>
    ELSE /\ toasts' = <<Toast("success", "Profile updated successfully!")>>
         /\ lastSaved' = Profile
         /\ UNCHANGED <<session>>

\* lines 204-228
handleSave ==
    IF ~Truthy(trim(personalInfo.fullName))
    THEN /\ toasts' = <<Toast("error", "Full name is required")>>
         /\ UNCHANGED <<session, lastSaved>>
    ELSE IF ~validateEmail(personalInfo.emailAddress)
    THEN /\ toasts' = <<Toast("error", "Please enter a valid email address")>>
         /\ UNCHANGED <<session, lastSaved>>
    ELSE IF ~validatePhone(personalInfo.phoneNumber)
    THEN /\ toasts' = <<Toast("error", "Please enter a valid phone number")>>
         /\ UNCHANGED <<session, lastSaved>>
    ELSE IF Truthy(researchLinks.orcidId) /\ ~validateOrcid(researchLinks.orcidId)
    THEN /\ toasts' = <<Toast("error", "Please enter a valid ORCID ID (format: 0000-0000-0000-0000)")>>
         /\ UNCHANGED <<session, lastSaved>>
    ELSE /\ toasts' = <<Toast("success", "Profile updated successfully!")>>
         /\ hasChanges' = FALSE
         /\ lastSaved' = Profile
         /\ UNCHANGED <<activeSection, profileImage, personalInfo, academicInfo,
                        researchLinks, passwordData, notifications, privacySetting>>

\* A variant that does restore the values of the last accepted Save.
handleCancel_restores ==
    /\ hasChanges' = FALSE
    /\ toasts' = <<Toast("info", "Changes discarded")>>
    /\ personalInfo' = lastSaved.personalInfo
    /\ academicInfo' = lastSaved.academicInfo
    /\ researchLinks' = lastSaved.researchLinks
    /\ notifications' = lastSaved.notifications
    /\ privacySetting' = lastSaved.privacySetting
    /\ UNCHANGED <<activeSection, profileImage, passwordData, lastSaved>>

\* lines 230-234
handleCancel ==
    /\ hasChanges' = FALSE
    /\ toasts' = <<Toast("info", "Changes discarded")>>
    /\ UNCHANGED <<activeSection, profileImage, personalInfo, academicInfo,
                   researchLinks, passwordData, notifications, privacySetting, lastSaved>>

\* lines 236-240
handleReset ==
    /\ hasChanges' = FALSE
    /\ toasts' = <<Toast("info", "Profile reset to defaults")>>
    /\ UNCHANGED <<activeSection, profileImage, personalInfo, academicInfo,
                   researchLinks, passwordData, notifications, privacySetting, lastSaved>>

\* A variant that marks the session dirty, as the other field handlers do.
setPasswordField_marksDirty(field, value) ==
    /\ passwordData' = [passwordData EXCEPT ![field] = value]
    /\ hasChanges' = TRUE
    /\ toasts' = <<>>
    /\ UNCHANGED <<activeSection, profileImage, personalInfo, academicInfo,
                   researchLinks, notifications, privacySetting, lastSaved>>

\* lines 743, 754, 765: the password inputs' inline onChange
setPasswordField(field, value) ==
    /\ passwordData' = [passwordData EXCEPT ![field] = value]
    /\ toasts' = <<>>
    /\ UNCHANGED <<activeSection, hasChanges, profileImage, personalInfo, academicInfo,
                   researchLinks, notifications, privacySetting, lastSaved>>

\* A variant that tests the length before the match.
handlePasswordChange_lengthFirst ==
    IF Len(passwordData.newPassword) < 8
    THEN /\ toasts' = <<Toast("error", "Password must be at least 8 characters")>>
         /\ UNCHANGED <<session, lastSaved>>
    ELSE IF passwordData.newPassword # passwordData.confirmPassword
    THEN /\ toasts' = <<Toast("error", "New passwords don't match")>>
         /\ UNCHANGED <<session, lastSaved>>
    ELSE /\ toasts' = <<Toast("success", "Password changed successfully!")>>
         /\ passwordData' = [currentPassword |-> <<>>, newPassword |-> <<>>,
                             confirmPassword |-> <<>>]
         /\ UNCHANGED <<activeSection, hasChanges, profileImage, personalInfo,
                        academicInfo, researchLinks, notifications, privacySetting,
                        lastSaved>>

\* A variant that clears the two new-password fields only.
handlePasswordChange_keepsCurrent ==
    IF passwordData.newPassword # passwordData.confirmPassword
    THEN /\ toasts' = <<Toast("error", "New passwords don't match")>>
         /\ UNCHANGED <<session, lastSaved>>
    ELSE IF Len(passwordData.newPassword) < 8
    THEN /\ toasts' = <<Toast("error", "Password must be at least 8 characters")>>
         /\ UNCHANGED <<session, lastSaved>>
    ELSE /\ toasts' = <<Toast("success", "Password changed successfully!")>>
         /\ passwordData' = [passwordData EXCEPT !.newPassword = <<>>,
                                                 !.confirmPassword = <<>>]
         /\ UNCHANGED <<activeSection, hasChanges, profileImage, personalInfo,
                        academicInfo, researchLinks, notifications, privacySetting,
                        lastSaved>>

\* lines 242-254
handlePasswordChange ==
    IF passwordData.newPassword # passwordData.confirmPassword
    THEN /\ toasts' = <<Toast("error", "New passwords don't match")>>
         /\ UNCHANGED <<session, lastSaved>>
    ELSE IF Len(passwordData.newPassword) < 8
    THEN /\ toasts' = <<Toast("error", "Password must be at least 8 characters")>>
         /\ UNCHANGED <<session, lastSaved>>
    ELSE /\ toasts' = <<Toast("success", "Password changed successfully!")>>
         /\ passwordData' = [currentPassword |-> <<>>, newPassword |-> <<>>,
                             confirmPassword |-> <<>>]
         /\ UNCHANGED <<activeSection, hasChanges, profileImage, personalInfo,
                        academicInfo, researchLinks, notifications, privacySetting,
                        lastSaved>>

\* lines 256-258
handleImageUpload ==
    /\ toasts' = <<Toast("info", "Image upload functionality would be implemented here")>>
    /\ UNCHANGED <<session, lastSaved>>

\* line 284: the sidebar buttons
setActiveSection(id) ==
    /\ activeSection' = id
    /\ toasts' = <<>>
    /\ UNCHANGED <<hasChanges, profileImage, personalInfo, academicInfo, researchLinks,
                   passwordData, notifications, privacySetting, lastSaved>>

(***************************************************************************)
(* Values the widgets can hand to the handlers.                            *)
(***************************************************************************)
\* A Select delivers one of the entries of its option list.  The model offers
\* the last entry of each list (none of them is an initial value) ...
Options(list) == {list[Len(list)]}

\* ... and, for the specialization areas, "Data Science" (initially in the
\* middle of specializationAreas) and "Mobile Development" (initially absent).
AreaInputs == {specializationOptions[2], specializationOptions[Len(specializationOptions)]}

\* "", whitespace only, and a name
FullNameInputs == {<<>>, <<" ", "\t">>, DefaultFullName}

\* "bad@", and a well-formed address
EmailAddressInputs == {<<"b","a","d","@">>, DefaultEmailAddress}

\* "12345", and a well-formed number
PhoneNumberInputs == {<<"1","2","3","4","5">>, DefaultPhoneNumber}

\* "", "0000-0000-0000-123" (short final group), "0000-0000-0000-123X"
OrcidIdInputs ==
    { <<>>,
      <<"0","0","0","0","-","0","0","0","0","-","0","0","0","0","-","1","2","3">>,
      <<"0","0","0","0","-","0","0","0","0","-","0","0","0","0","-","1","2","3","X">> }

\* "", "short", "longpass" (8 characters)
PasswordInputs ==
    { <<>>,
      <<"s","h","o","r","t">>,
      <<"l","o","n","g","p","a","s","s">> }

\* What a Calendar's onSelect delivers: a day, or undefined when the selected
\* day is clicked again.
CalendarInputs == {<<2022, 2, 1>>, undefined}

\* What new Date() can return.
NowValues == {<<2026, 10, 4>>}

\* A variant that stores what onSelect delivered, undefined included.
DateOrNow_passesThrough(date, now) == date

\* date || new Date()
DateOrNow(date, now) == IF date # undefined THEN date ELSE now

\* How an onSelect event is recorded: with a day, or without one.
CalendarVia(date) == IF date # undefined THEN "calendar" ELSE "calendar-undefined"

PersonalTextInputs(field) ==
    CASE field = "fullName"             -> FullNameInputs
      [] field = "phoneNumber"          -> PhoneNumberInputs
      [] field = "emailAddress"         -> EmailAddressInputs
      [] field = "officeAddress"        -> {"Room 1"}
      [] field = "postalAddress"        -> {"PO Box 1"}
      [] field = "academicDesignation"  -> Options(academicDesignations)
      [] field = "department"           -> Options(departments)
      [] field = "payScale"             -> Options(payScales)
      [] field = "highestQualification" -> Options(qualifications)

ResearchLinksInputs(field) ==
    CASE field = "orcidId" -> OrcidIdInputs
      [] OTHER             -> {""}

\* An event: the handler it ran, the control it came from, and the field and
\* value the handler was called with (<<>> when it takes none).
Event(handler, via, field, value) ==
    [handler |-> handler, via |-> via, field |-> field, value |-> value]

\* Bookkeeping shared by all actions: one more event handled, and which.
Handled(event) ==
    /\ lastEvent' = event
    /\ eventCount' = eventCount + 1

(***************************************************************************)
(* Actions: one per control of the rendered page.  The guards are the      *)
(* rendering conditions of the JSX (which section is shown, which buttons  *)
(* exist, which are disabled).                                             *)
(***************************************************************************)
\* lines 278-296
Navigate ==
    /\ eventCount < MaxEvents
    /\ \E id \in ActiveSections :
        /\ setActiveSection(id)
        /\ Handled(Event("setActiveSection", "sidebar", id, <<>>))

\* lines 326, 341-423, 455-494: Inputs, Selects and Textareas of the personal section
ChangePersonalInfo ==
    /\ eventCount < MaxEvents
    /\ activeSection = "personal"
    /\ \E field \in {"fullName", "academicDesignation", "department", "payScale",
                     "highestQualification", "phoneNumber", "emailAddress",
                     "officeAddress", "postalAddress"} :
       \E value \in PersonalTextInputs(field) :
        /\ handlePersonalInfoChange(field, value)
        /\ Handled(Event("handlePersonalInfoChange", "input", field, value))

\* lines 438-443
SelectDateOfAppointment ==
    /\ eventCount < MaxEvents
    /\ activeSection = "personal"
    /\ \E date \in CalendarInputs : \E now \in NowValues :
        /\ handlePersonalInfoChange("dateOfAppointment", DateOrNow(date, now))
        /\ Handled(Event("handlePersonalInfoChange", CalendarVia(date),
                         "dateOfAppointment", DateOrNow(date, now)))

\* lines 501, 515-521
ChangeResearchInterests ==
    /\ eventCount < MaxEvents
    /\ activeSection = "academic"
    /\ \E value \in {"Formal methods"} :
        /\ handleAcademicInfoChange("researchInterests", value)
        /\ Handled(Event("handleAcademicInfoChange", "input", "researchInterests", value))

\* lines 539-552: the Select hands its value to addSpecialization
AddSpecialization ==
    /\ eventCount < MaxEvents
    /\ activeSection = "academic"
    /\ \E area \in AreaInputs :
        /\ addSpecialization(area)
        /\ Handled(Event("addSpecialization", "select", "specializationAreas", area))

\* lines 527-537: the remove button of a Badge
RemoveSpecialization ==
    /\ eventCount < MaxEvents
    /\ activeSection = "academic"
    /\ \E area \in AreaInputs :
        /\ removeSpecialization(area)
        /\ Handled(Event("removeSpecialization", "badge", "specializationAreas", area))

\* lines 571-576, 594-599
SelectPerformancePeriod ==
    /\ eventCount < MaxEvents
    /\ activeSection = "academic"
    /\ \E field \in {"performancePeriodStart", "performancePeriodEnd"} :
       \E date \in CalendarInputs : \E now \in NowValues :
        /\ handleAcademicInfoChange(field, DateOrNow(date, now))
        /\ Handled(Event("handleAcademicInfoChange", CalendarVia(date),
                         field, DateOrNow(date, now)))

\* lines 610, 631
UploadImage ==
    /\ eventCount < MaxEvents
    /\ activeSection = "picture"
    /\ handleImageUpload
    /\ Handled(Event("handleImageUpload", "button", "", <<>>))

\* lines 648, 662-719
ChangeResearchLinks ==
    /\ eventCount < MaxEvents
    /\ activeSection = "research"
    /\ \E field \in {"googleScholar", "orcidId", "researchGate", "linkedIn",
                     "personalWebsite"} :
       \E value \in ResearchLinksInputs(field) :
        /\ handleResearchLinksChange(field, value)
        /\ Handled(Event("handleResearchLinksChange", "input", field, value))

\* lines 726, 739-768
ChangePasswordField ==
    /\ eventCount < MaxEvents
    /\ activeSection = "settings"
    /\ \E field \in {"currentPassword", "newPassword", "confirmPassword"} :
       \E value \in PasswordInputs :
        /\ setPasswordField(field, value)
        /\ Handled(Event("setPasswordData", "input", field, value))

\* A variant that does not look at currentPassword.
PasswordButtonDisabled_ignoresCurrent ==
    \/ ~Truthy(passwordData.newPassword)
    \/ ~Truthy(passwordData.confirmPassword)

\* line 772: the Change Password button's disabled attribute
PasswordButtonDisabled ==
    \/ ~Truthy(passwordData.currentPassword)
    \/ ~Truthy(passwordData.newPassword)
    \/ ~Truthy(passwordData.confirmPassword)

\* lines 770-776
SubmitPasswordChange ==
    /\ eventCount < MaxEvents
    /\ activeSection = "settings"
    /\ ~PasswordButtonDisabled
    /\ handlePasswordChange
    /\ Handled(Event("handlePasswordChange", "button", "", <<>>))

\* lines 796-838
ToggleNotification ==
    /\ eventCount < MaxEvents
    /\ activeSection = "settings"
    /\ \E field \in {"emailNotifications", "researchUpdates", "systemAlerts",
                     "departmentNews"} :
       \E checked \in BOOLEAN :
        /\ handleNotificationChange(field, checked)
        /\ Handled(Event("handleNotificationChange", "switch", field, checked))

\* lines 852-895
ChangePrivacy ==
    /\ eventCount < MaxEvents
    /\ activeSection = "settings"
    /\ \E value \in PrivacySettings :
        /\ handlePrivacyChange(value)
        /\ Handled(Event("setPrivacySetting", "radio", "privacySetting", value))

\* A variant that renders the header buttons unconditionally.
HeaderButtonsShown_always == TRUE

\* line 311: the header's Cancel and Save Changes exist only while hasChanges
HeaderButtonsShown == hasChanges

\* lines 313-316
HeaderCancel ==
    /\ eventCount < MaxEvents
    /\ HeaderButtonsShown
    /\ handleCancel
    /\ Handled(Event("handleCancel", "header", "", <<>>))

\* lines 317-320
HeaderSave ==
    /\ eventCount < MaxEvents
    /\ HeaderButtonsShown
    /\ handleSave
    /\ Handled(Event("handleSave", "header", "", <<>>))

\* lines 903-910: the footer is rendered unconditionally
FooterReset ==
    /\ eventCount < MaxEvents
    /\ handleReset
    /\ Handled(Event("handleReset", "footer", "", <<>>))

\* lines 913-919
FooterCancel ==
    /\ eventCount < MaxEvents
    /\ handleCancel
    /\ Handled(Event("handleCancel", "footer", "", <<>>))

\* lines 920-925
FooterSave ==
    /\ eventCount < MaxEvents
    /\ handleSave
    /\ Handled(Event("handleSave", "footer", "", <<>>))

Next ==
    \/ Navigate
    \/ ChangePersonalInfo
    \/ SelectDateOfAppointment
    \/ ChangeResearchInterests
    \/ AddSpecialization
    \/ RemoveSpecialization
    \/ SelectPerformancePeriod
    \/ UploadImage
    \/ ChangeResearchLinks
    \/ ChangePasswordField
    \/ SubmitPasswordChange
    \/ ToggleNotification
    \/ ChangePrivacy
    \/ HeaderCancel
    \/ HeaderSave
    \/ FooterReset
    \/ FooterCancel
    \/ FooterSave

Spec == Init /\ [][Next]_vars

(***************************************************************************)
(* The validators under Save.  The session starts right after the user has *)
(* typed a text into one of the three validated Inputs, every other field  *)
(* still holding its initial value, and the user presses Save: handleSave  *)
(* applies validateEmail, validatePhone and validateOrcid to the fields.    *)
(***************************************************************************)
\* The texts one keystroke away from s: s itself, s with one character
\* replaced, s with one character deleted, s with one character inserted.
EditsOf(s, alphabet) ==
    {s}
    \cup {[s EXCEPT ![i] = c] : i \in 1..Len(s), c \in alphabet}
    \cup {SubSeq(s, 1, i - 1) \o SubSeq(s, i + 1, Len(s)) : i \in 1..Len(s)}
    \cup {SubSeq(s, 1, i) \o <<c>> \o SubSeq(s, i + 1, Len(s)) :
                i \in 0..Len(s), c \in alphabet}

\* "a@b.c"
ShortestEmailAddress == <<"a","@","b",".","c">>

\* "1234567890"
TenDigits == <<"1","2","3","4","5","6","7","8","9","0">>

\* Texts typed into the email Input.
EmailAddressTyped ==
    UNION {EditsOf(s, {"@", ".", " ", "\t", "x"}) :
                s \in EmailAddressInputs \cup {ShortestEmailAddress}}

\* Texts typed into the phone Input.
PhoneNumberTyped ==
    UNION {EditsOf(s, {"+", "(", ")", "-", " ", "\t", "5", "x"}) :
                s \in PhoneNumberInputs \cup {TenDigits}}

\* Texts typed into the ORCID Input.
OrcidIdTyped ==
    UNION {EditsOf(s, {"0", "-", "X", "x", " "}) :
                s \in OrcidIdInputs \cup {DefaultOrcidId}}

\* The state after the first edit of the session, made in the email, phone
\* or (after a click on the Research section) the ORCID Input.
InitTyped ==
    /\ hasChanges = TRUE
    /\ profileImage = "https://images.unsplash.com/photo-1507003211169-0a1dd7228f2d?w=400&h=400&fit=crop&crop=face"
    /\ academicInfo = InitialAcademicInfo
    /\ passwordData = InitialPasswordData
    /\ notifications = InitialNotifications
    /\ privacySetting = "university"
    /\ toasts = <<>>
    /\ lastSaved = [ personalInfo   |-> InitialPersonalInfo,
                     academicInfo   |-> InitialAcademicInfo,
                     researchLinks  |-> InitialResearchLinks,
                     notifications  |-> InitialNotifications,
                     privacySetting |-> "university" ]
    /\ \/ \E value \in EmailAddressTyped :
            /\ activeSection = "personal"
            /\ personalInfo = [InitialPersonalInfo EXCEPT !.emailAddress = value]
            /\ researchLinks = InitialResearchLinks
            /\ lastEvent = Event("handlePersonalInfoChange", "input", "emailAddress", value)
            /\ eventCount = 1
       \/ \E value \in PhoneNumberTyped :
            /\ activeSection = "personal"
            /\ personalInfo = [InitialPersonalInfo EXCEPT !.phoneNumber = value]
            /\ researchLinks = InitialResearchLinks
            /\ lastEvent = Event("handlePersonalInfoChange", "input", "phoneNumber", value)
            /\ eventCount = 1
       \/ \E value \in OrcidIdTyped :
            /\ activeSection = "research"
            /\ personalInfo = InitialPersonalInfo
            /\ researchLinks = [InitialResearchLinks EXCEPT !.orcidId = value]
            /\ lastEvent = Event("handleResearchLinksChange", "input", "orcidId", value)
            /\ eventCount = 2

NextSave ==
    \/ HeaderSave
    \/ FooterSave

SpecValidators == InitTyped /\ [][NextSave]_vars

(***************************************************************************)
(* Properties.                                                             *)
(*                                                                         *)
(* Every step handles exactly one event and records it in lastEvent, so    *)
(* in a step lastEvent' names the handler that ran, the unprimed variables *)
(* are the state before it and the primed ones the state after it.         *)
(***************************************************************************)
\* The five records of the profile.
profileRecords ==
    <<personalInfo, academicInfo, researchLinks, notifications, privacySetting>>

\* The handlers that write one field of a profile record.
FieldEditHandlers ==
    {"handlePersonalInfoChange", "handleAcademicInfoChange",
     "handleResearchLinksChange", "handleNotificationChange", "setPrivacySetting"}

\* What a Save attempt must report in the current state: the message of the
\* first rule that fails, in the order fullName, emailAddress, phoneNumber,
\* orcidId, or success when none fails.
SaveVerdict ==
    IF trim(personalInfo.fullName) = <<>>
    THEN Toast("error", "Full name is required")
    ELSE IF ~validateEmail(personalInfo.emailAddress)
    THEN Toast("error", "Please enter a valid email address")
    ELSE IF ~validatePhone(personalInfo.phoneNumber)
    THEN Toast("error", "Please enter a valid phone number")
    ELSE IF researchLinks.orcidId # <<>> /\ ~validateOrcid(researchLinks.orcidId)
    THEN Toast("error", "Please enter a valid ORCID ID (format: 0000-0000-0000-0000)")
    ELSE Toast("success", "Profile updated successfully!")

SaveSucceeded == toasts = <<Toast("success", "Profile updated successfully!")>>

\* C1: after any edit of a field of PersonalInfo, AcademicInfo, ResearchLinks,
\* NotificationSettings or the privacy setting, hasChanges is true, whatever it
\* was before and whatever value was written.
C1_EditSetsDirty ==
    [][lastEvent'.handler \in FieldEditHandlers => hasChanges' = TRUE]_vars

\* C1 witness: the first event of a session rewrote fullName with the value it
\* already had (the flag was false, the value is equal to the old one), and the
\* session is dirty.
C1_Witness ==
    /\ eventCount = 1
    /\ lastEvent.handler = "handlePersonalInfoChange"
    /\ lastEvent.field = "fullName"
    /\ lastEvent.value = InitialPersonalInfo.fullName
    /\ personalInfo = InitialPersonalInfo
    /\ hasChanges

\* C2: every step in which hasChanges goes from true to false is an accepted
\* Save, a Cancel or a Reset.
C2_OnlySaveCancelResetClean ==
    [][(hasChanges /\ ~hasChanges') =>
            \/ lastEvent'.handler \in {"handleCancel", "handleReset"}
            \/ (lastEvent'.handler = "handleSave" /\ SaveSucceeded')]_vars

\* C2 witness: an accepted Save from the header, which is there only while the
\* session is dirty, has left the session clean.
C2_Witness ==
    /\ lastEvent.handler = "handleSave"
    /\ lastEvent.via = "header"
    /\ SaveSucceeded
    /\ ~hasChanges

\* C3: a Save attempt that fails validation emits exactly one notification, an
\* error, and leaves every field of every record, the password triple and
\* hasChanges as they were.
C3_RejectedSaveChangesNothing ==
    [][(lastEvent'.handler = "handleSave" /\ SaveVerdict.severity = "error") =>
            /\ Len(toasts') = 1
            /\ toasts'[1].severity = "error"
            /\ UNCHANGED <<hasChanges, personalInfo, academicInfo, researchLinks,
                           notifications, privacySetting, passwordData>>]_vars

\* C3 witness: a dirty session with an empty fullName was refused and is still
\* dirty.
C3_Witness ==
    /\ lastEvent.handler = "handleSave"
    /\ toasts = <<Toast("error", "Full name is required")>>
    /\ personalInfo.fullName = <<>>
    /\ hasChanges

\* C4: Save reports exactly the first failing rule, in the order fullName,
\* emailAddress, phoneNumber, orcidId, and is accepted if and only if no rule
\* fails; an empty orcidId fails no rule.
C4_FirstFailureWins ==
    [][lastEvent'.handler = "handleSave" =>
            /\ toasts' = <<SaveVerdict>>
            /\ (researchLinks.orcidId = <<>>
                    => toasts'[1].message # "Please enter a valid ORCID ID (format: 0000-0000-0000-0000)")]_vars

\* C4 witness: a Save refused for the email address although the phone number
\* and the ORCID iD are invalid too.
C4_Witness ==
    /\ lastEvent.handler = "handleSave"
    /\ toasts = <<Toast("error", "Please enter a valid email address")>>
    /\ ~validatePhone(personalInfo.phoneNumber)
    /\ researchLinks.orcidId # <<>>
    /\ ~validateOrcid(researchLinks.orcidId)

\* C5: an accepted Save sets hasChanges to false, emits exactly one
\* notification, a success, and changes no field value, whether the session
\* was dirty or clean before.
C5_AcceptedSave ==
    [][(lastEvent'.handler = "handleSave" /\ SaveVerdict.severity = "success") =>
            /\ hasChanges' = FALSE
            /\ Len(toasts') = 1
            /\ toasts'[1].severity = "success"
            /\ UNCHANGED <<personalInfo, academicInfo, researchLinks, notifications,
                           privacySetting, passwordData>>]_vars

\* C5 witness: a Save accepted with edited, valid fields (an empty orcidId).
C5_Witness ==
    /\ lastEvent.handler = "handleSave"
    /\ SaveSucceeded
    /\ ~hasChanges
    /\ researchLinks.orcidId = <<>>
    /\ personalInfo.officeAddress = "Room 1"

\* C6: in every state where hasChanges is false, the profile records equal
\* their values at the most recent accepted Save (the initial defaults when no
\* Save was accepted yet).
C6_CleanMeansSaved == ~hasChanges => Profile = lastSaved

\* C7, as stated: Save and Cancel are triggered only while hasChanges is true.
C7_SaveCancelOnlyWhenDirty ==
    [][lastEvent'.handler \in {"handleSave", "handleCancel"} => hasChanges]_vars

\* C7, amended: the header's Save Changes and Cancel are triggered only while
\* hasChanges is true; the footer's Save Profile and Cancel can be triggered in
\* every state.
C7_HeaderOnlyWhenDirty ==
    /\ [][(/\ lastEvent'.handler \in {"handleSave", "handleCancel"}
           /\ lastEvent'.via = "header") => hasChanges]_vars
    /\ [](eventCount < MaxEvents => (ENABLED FooterSave /\ ENABLED FooterCancel))

\* C7 witness: Cancel was triggered from the header.
C7_Witness ==
    /\ lastEvent.handler = "handleCancel"
    /\ lastEvent.via = "header"
    /\ ~hasChanges

\* C8: a field update on PersonalInfo, AcademicInfo, ResearchLinks or
\* NotificationSettings replaces exactly the named field by the given value;
\* the rest of the record, the other records, the privacy setting and the
\* password triple are unchanged, and hasChanges becomes true.
C8_FieldUpdateFrame ==
    [][LET e == lastEvent' IN
       /\ e.handler = "handlePersonalInfoChange" =>
            /\ personalInfo' = [personalInfo EXCEPT ![e.field] = e.value]
            /\ UNCHANGED <<academicInfo, researchLinks, notifications,
                           privacySetting, passwordData, activeSection, profileImage>>
            /\ hasChanges'
       /\ e.handler = "handleAcademicInfoChange" =>
            /\ academicInfo' = [academicInfo EXCEPT ![e.field] = e.value]
            /\ UNCHANGED <<personalInfo, researchLinks, notifications,
                           privacySetting, passwordData, activeSection, profileImage>>
            /\ hasChanges'
       /\ e.handler = "handleResearchLinksChange" =>
            /\ researchLinks' = [researchLinks EXCEPT ![e.field] = e.value]
            /\ UNCHANGED <<personalInfo, academicInfo, notifications,
                           privacySetting, passwordData, activeSection, profileImage>>
            /\ hasChanges'
       /\ e.handler = "handleNotificationChange" =>
            /\ notifications' = [notifications EXCEPT ![e.field] = e.value]
            /\ UNCHANGED <<personalInfo, academicInfo, researchLinks,
                           privacySetting, passwordData, activeSection, profileImage>>
            /\ hasChanges'
      ]_vars

\* C8 witness: linkedIn was cleared while the other links kept their values.
C8_Witness ==
    /\ lastEvent.handler = "handleResearchLinksChange"
    /\ lastEvent.field = "linkedIn"
    /\ researchLinks = [InitialResearchLinks EXCEPT !.linkedIn = ""]
    /\ hasChanges

\* C9: editing a password field and submitting a password change leave
\* hasChanges and the five profile records unchanged; Save, Cancel and Reset
\* leave the password triple unchanged.
C9_PasswordIndependent ==
    [][/\ lastEvent'.handler \in {"setPasswordData", "handlePasswordChange"} =>
            UNCHANGED <<hasChanges, profileRecords>>
       /\ lastEvent'.handler \in {"handleSave", "handleCancel", "handleReset"} =>
            UNCHANGED passwordData
      ]_vars

\* C9 witness: a password change succeeded and cleared the triple.
C9_Witness ==
    /\ lastEvent.handler = "handlePasswordChange"
    /\ toasts = <<Toast("success", "Password changed successfully!")>>
    /\ passwordData = InitialPasswordData
    /\ Profile = lastSaved

\* C10: addSpecialization(area) changes nothing when area is already in
\* specializationAreas; otherwise it appends area at the end, changes nothing
\* else and sets hasChanges.  Applied a second time in succession with the
\* same area it changes nothing.
C10_AddSpecialization ==
    [][lastEvent'.handler = "addSpecialization" =>
        LET area == lastEvent'.value
            old  == academicInfo.specializationAreas
        IN  /\ area \in Range(old) => UNCHANGED session
            /\ area \notin Range(old) =>
                /\ academicInfo' =
                       [academicInfo EXCEPT !.specializationAreas = Append(old, area)]
                /\ hasChanges' = TRUE
                /\ UNCHANGED <<personalInfo, researchLinks, notifications,
                               privacySetting, passwordData, activeSection,
                               profileImage>>
            /\ (lastEvent.handler = "addSpecialization" /\ lastEvent.value = area)
                    => UNCHANGED session
      ]_vars

\* C10 witness: addSpecialization ran for an area that is in the list and the
\* session is still clean, so the call changed nothing.
C10_Witness ==
    /\ lastEvent.handler = "addSpecialization"
    /\ lastEvent.value = "Data Science"
    /\ academicInfo = InitialAcademicInfo
    /\ ~hasChanges

\* C11: in every reachable state specializationAreas has no duplicates and all
\* its elements are entries of specializationOptions.
C11_SpecializationsAreASet ==
    LET areas == academicInfo.specializationAreas
    IN  /\ \A i \in 1..Len(areas) : \A j \in 1..Len(areas) :
                i # j => areas[i] # areas[j]
        /\ \A i \in 1..Len(areas) :
                \E k \in 1..Len(specializationOptions) : areas[i] = specializationOptions[k]

\* C11 witness: an area was added to the initial list.
C11_Witness ==
    /\ lastEvent.handler = "addSpecialization"
    /\ academicInfo.specializationAreas =
           <<"Machine Learning", "Data Science", "Artificial Intelligence",
             "Mobile Development">>

IndexOf(list, x) == CHOOSE i \in 1..Len(list) : list[i] = x

\* C13: removeSpecialization(area) for a member removes it: afterwards area is
\* not in the list, every other element is still there in the previous
\* relative order, no other field has changed and hasChanges is true.
C13_RemoveMember ==
    [][(/\ lastEvent'.handler = "removeSpecialization"
        /\ lastEvent'.value \in Range(academicInfo.specializationAreas)) =>
        LET area == lastEvent'.value
            old  == academicInfo.specializationAreas
            new  == academicInfo'.specializationAreas
        IN  /\ area \notin Range(new)
            /\ Range(new) = Range(old) \ {area}
            /\ Len(new) = Len(old) - 1
            /\ \A i \in 1..Len(new) : \A j \in 1..Len(new) :
                    i < j => IndexOf(old, new[i]) < IndexOf(old, new[j])
            /\ academicInfo' = [academicInfo EXCEPT !.specializationAreas = new]
            /\ hasChanges' = TRUE
            /\ UNCHANGED <<personalInfo, researchLinks, notifications, privacySetting,
                           passwordData, activeSection, profileImage>>
      ]_vars

\* C13 witness: "Data Science" was removed from the middle of the initial list.
C13_Witness ==
    /\ lastEvent.handler = "removeSpecialization"
    /\ lastEvent.value = "Data Science"
    /\ academicInfo.specializationAreas = <<"Machine Learning", "Artificial Intelligence">>
    /\ hasChanges

PasswordMismatch == Toast("error", "New passwords don't match")

PasswordTooShort == Toast("error", "Password must be at least 8 characters")

PasswordChanged == Toast("success", "Password changed successfully!")

\* C14: a password-change submit is rejected with the mismatch message when
\* newPassword differs from confirmPassword, and otherwise with the length
\* message when newPassword has fewer than 8 characters; a rejection changes
\* none of the three password fields.
C14_PasswordRejections ==
    [][lastEvent'.handler = "handlePasswordChange" =>
        /\ passwordData.newPassword # passwordData.confirmPassword =>
            /\ toasts' = <<PasswordMismatch>>
            /\ UNCHANGED passwordData
        /\ (/\ passwordData.newPassword = passwordData.confirmPassword
            /\ Len(passwordData.newPassword) < 8) =>
            /\ toasts' = <<PasswordTooShort>>
            /\ UNCHANGED passwordData
      ]_vars

\* C14 witness: a short newPassword with a different confirmPassword got the
\* mismatch message and the fields are still filled in.
C14_Witness ==
    /\ lastEvent.handler = "handlePasswordChange"
    /\ toasts = <<PasswordMismatch>>
    /\ Len(passwordData.newPassword) < 8
    /\ passwordData.newPassword # passwordData.confirmPassword
    /\ passwordData.currentPassword # <<>>

\* C15: a submit with newPassword equal to confirmPassword and at least 8
\* characters long emits exactly one notification, a success, and leaves the
\* three password fields empty, whatever currentPassword was.
C15_PasswordSuccess ==
    [][(/\ lastEvent'.handler = "handlePasswordChange"
        /\ passwordData.newPassword = passwordData.confirmPassword
        /\ Len(passwordData.newPassword) >= 8) =>
            /\ toasts' = <<PasswordChanged>>
            /\ passwordData'.currentPassword = <<>>
            /\ passwordData'.newPassword = <<>>
            /\ passwordData'.confirmPassword = <<>>
      ]_vars

\* C15 witness: a password change succeeded in the settings section.
C15_Witness ==
    /\ lastEvent.handler = "handlePasswordChange"
    /\ toasts = <<PasswordChanged>>
    /\ activeSection = "settings"
    /\ passwordData.currentPassword = <<>>
    /\ passwordData.newPassword = <<>>
    /\ passwordData.confirmPassword = <<>>

\* C16: the password submit can be triggered only in states where the three
\* password fields are all non-empty; it cannot be triggered in the initial
\* state nor right after a successful password change.
C16_SubmitNeedsAllThree ==
    /\ [][lastEvent'.handler = "handlePasswordChange" =>
            /\ passwordData.currentPassword # <<>>
            /\ passwordData.newPassword # <<>>
            /\ passwordData.confirmPassword # <<>>]_vars
    /\ [](ENABLED SubmitPasswordChange =>
            /\ passwordData.currentPassword # <<>>
            /\ passwordData.newPassword # <<>>
            /\ passwordData.confirmPassword # <<>>)
    /\ []((\/ eventCount = 0
           \/ (lastEvent.handler = "handlePasswordChange" /\ toasts = <<PasswordChanged>>))
            => ~ENABLED SubmitPasswordChange)

\* C16 witness: a submit was triggered (and refused) with the three fields
\* filled in.
C16_Witness ==
    /\ lastEvent.handler = "handlePasswordChange"
    /\ toasts = <<PasswordTooShort>>
    /\ passwordData.currentPassword # <<>>
    /\ passwordData.newPassword # <<>>
    /\ passwordData.confirmPassword # <<>>

OrcidEndingInX ==
    <<"0","0","0","0","-","0","0","0","0","-","0","0","0","0","-","1","2","3","X">>

\* "0000-0000-0000-123"
OrcidShortFinalGroup ==
    <<"0","0","0","0","-","0","0","0","0","-","0","0","0","0","-","1","2","3">>

\* DDDD-DDDD-DDDD-DDDX: four groups of four separated by hyphens, all digits
\* but for the last character, a digit or an uppercase X.
OrcidShape(s) ==
    /\ Len(s) = 19
    /\ {i \in 1..Len(s) : s[i] = "-"} = {5, 10, 15}
    /\ \A i \in 1..18 : s[i] \in Digits \cup {"-"}
    /\ s[19] \in Digits \cup {"X"}

\* What the toast of the last Save said, if the last event was a Save.
SaveSaid(message) ==
    /\ lastEvent.handler = "handleSave"
    /\ toasts = <<Toast("error", message)>>

\* C18: validateOrcid accepts exactly the 19-character texts DDDD-DDDD-DDDD-DDDX
\* with D a decimal digit and the last character a digit or an uppercase X;
\* "0000-0000-0000-1234" and "0000-0000-0000-123X" are accepted,
\* "0000-0000-0000-123" is rejected; Save refuses a non-empty ORCID exactly
\* when it has not that shape.
C18_OrcidPattern ==
    /\ validateOrcid(researchLinks.orcidId) <=> OrcidShape(researchLinks.orcidId)
    /\ validateOrcid(DefaultOrcidId)
    /\ validateOrcid(OrcidEndingInX)
    /\ ~validateOrcid(OrcidShortFinalGroup)
    /\ lastEvent.handler = "handleSave" =>
        (SaveSaid("Please enter a valid ORCID ID (format: 0000-0000-0000-0000)")
            <=> (researchLinks.orcidId # <<>> /\ ~OrcidShape(researchLinks.orcidId)))

\* C18 witness: Save accepted the typed ORCID "0000-0000-0000-123X".
C18_Witness ==
    /\ lastEvent.handler = "handleSave"
    /\ researchLinks.orcidId = OrcidEndingInX
    /\ toasts = <<Toast("success", "Profile updated successfully!")>>

\* A non-empty run of non-whitespace characters from position from to position to.
NonWhitespaceRun(s, from, to) ==
    /\ from <= to
    /\ \A k \in from..to : s[k] \notin Whitespace

\* non-space-chars @ non-space-chars . non-space-chars, as stated
EmailShapeAsStated(s) ==
    \E at \in 1..Len(s) : \E dot \in 1..Len(s) :
        /\ s[at] = "@"
        /\ s[dot] = "."
        /\ NonWhitespaceRun(s, 1, at - 1)
        /\ NonWhitespaceRun(s, at + 1, dot - 1)
        /\ NonWhitespaceRun(s, dot + 1, Len(s))

\* Exactly one '@', no whitespace, something before the '@', and after it a
\* '.' that is neither the first nor the last character of the rest.
EmailShape(s) ==
    LET ats == {i \in 1..Len(s) : s[i] = "@"}
    IN  /\ Cardinality(ats) = 1
        /\ \A i \in 1..Len(s) : s[i] \notin Whitespace
        /\ \A at \in ats :
            /\ at > 1
            /\ \E dot \in (at + 2)..(Len(s) - 1) : s[dot] = "."

\* C19 as stated: validateEmail accepts exactly the texts made of a non-empty
\* run of non-whitespace characters, '@', a non-empty run of non-whitespace
\* characters, '.', and a non-empty run of non-whitespace characters.
C19_EmailNonWhitespaceRuns ==
    /\ validateEmail(personalInfo.emailAddress)
            <=> EmailShapeAsStated(personalInfo.emailAddress)
    /\ validateEmail(DefaultEmailAddress)
    /\ ~validateEmail(<<"b","a","d","@">>)

\* C19: validateEmail accepts exactly the texts with no whitespace and exactly
\* one '@', which has at least one character before it and is followed by at
\* least one character, a '.', and at least one character (the runs contain
\* neither whitespace nor '@'); "john.smith@university.edu" is accepted and
\* "bad@" is rejected; Save refuses the email address exactly when it has not
\* that shape.
C19_EmailPattern ==
    /\ validateEmail(personalInfo.emailAddress) <=> EmailShape(personalInfo.emailAddress)
    /\ validateEmail(DefaultEmailAddress)
    /\ ~validateEmail(<<"b","a","d","@">>)
    /\ lastEvent.handler = "handleSave" =>
        (SaveSaid("Please enter a valid email address")
            <=> ~EmailShape(personalInfo.emailAddress))

\* C19 witness: Save refused a typed address with two '@' and no whitespace,
\* which has the stated shape.
C19_Witness ==
    /\ SaveSaid("Please enter a valid email address")
    /\ Cardinality({i \in 1..Len(personalInfo.emailAddress) :
                        personalInfo.emailAddress[i] = "@"}) = 2
    /\ EmailShapeAsStated(personalInfo.emailAddress)

\* optional '+', optional '(', then at least 10 characters drawn from digits,
\* space, hyphen and parentheses, as stated
PhoneShapeAsStated(s) ==
    \E plus \in {0, 1} : \E paren \in {0, 1} :
        /\ plus + paren <= Len(s)
        /\ plus = 1 => s[1] = "+"
        /\ paren = 1 => s[plus + 1] = "("
        /\ Len(s) - (plus + paren) >= 10
        /\ \A k \in (plus + paren + 1)..Len(s) : s[k] \in Digits \cup {" ", "-", "(", ")"}

\* After an optional leading '+', at least 10 characters, each a digit, a
\* whitespace character, a hyphen or a parenthesis.  (An optional '(' before
\* them adds nothing: '(' is one of the characters.)
PhoneShape(s) ==
    LET rest == IF s # <<>> /\ Head(s) = "+" THEN Tail(s) ELSE s
    IN  /\ Len(rest) >= 10
        /\ Range(rest) \subseteq Digits \cup Whitespace \cup {"-", "(", ")"}

\* C20 as stated: validatePhone accepts exactly an optional leading '+', an
\* optional '(', then at least 10 characters drawn from digits, space, hyphen
\* and parentheses.
C20_PhoneSpaceOnly ==
    /\ validatePhone(personalInfo.phoneNumber)
            <=> PhoneShapeAsStated(personalInfo.phoneNumber)
    /\ validatePhone(DefaultPhoneNumber)
    /\ ~validatePhone(<<"1","2","3","4","5">>)

\* C20: validatePhone accepts exactly an optional leading '+', an optional
\* '(', then at least 10 characters drawn from digits, whitespace characters
\* (space, tab, newline), hyphen and parentheses; "+1-555-123-4567" is
\* accepted and "12345" is rejected; Save refuses the phone number exactly
\* when it has not that shape.
C20_PhonePattern ==
    /\ validatePhone(personalInfo.phoneNumber) <=> PhoneShape(personalInfo.phoneNumber)
    /\ validatePhone(DefaultPhoneNumber)
    /\ ~validatePhone(<<"1","2","3","4","5">>)
    /\ lastEvent.handler = "handleSave" =>
        (SaveSaid("Please enter a valid phone number")
            <=> ~PhoneShape(personalInfo.phoneNumber))

\* C20 witness: Save accepted a typed phone number that contains a tab.
C20_Witness ==
    /\ lastEvent.handler = "handleSave"
    /\ "\t" \in Range(personalInfo.phoneNumber)
    /\ toasts = <<Toast("success", "Profile updated successfully!")>>

\* C21: dateOfAppointment, performancePeriodStart and performancePeriodEnd
\* are never undefined; a calendar selection that carries no date stores the
\* current date in its field and sets hasChanges.
C21_DatesAlwaysDefined ==
    /\ [](/\ personalInfo.dateOfAppointment # undefined
          /\ academicInfo.performancePeriodStart # undefined
          /\ academicInfo.performancePeriodEnd # undefined)
    /\ [][lastEvent'.via = "calendar-undefined" =>
            /\ hasChanges' = TRUE
            /\ lastEvent'.field = "dateOfAppointment" =>
                    personalInfo'.dateOfAppointment \in NowValues
            /\ lastEvent'.field = "performancePeriodStart" =>
                    academicInfo'.performancePeriodStart \in NowValues
            /\ lastEvent'.field = "performancePeriodEnd" =>
                    academicInfo'.performancePeriodEnd \in NowValues
       ]_vars

\* C21 witness: a deselection in the performancePeriodEnd calendar left the
\* current date in the field and the session dirty.
C21_Witness ==
    /\ lastEvent.via = "calendar-undefined"
    /\ lastEvent.field = "performancePeriodEnd"
    /\ academicInfo.performancePeriodEnd \in NowValues
    /\ academicInfo.performancePeriodEnd # InitialAcademicInfo.performancePeriodEnd
    /\ hasChanges

====
